---- MODULE Spec2Model ----
(***************************************************************************)
(* signalk-usage: the UsageCoordinator, its PowerEngine and TankageEngine, *)
(* and the plugin lifecycle that drives them.                              *)
(*                                                                         *)
(* One step of the model is one turn of the JavaScript event loop: the     *)
(* callback that starts the turn (the plugin's start continuation, a timer *)
(* tick, the completion of an InfluxDB query, plugin.stop) together with   *)
(* every promise reaction it causes, because promise reactions run before  *)
(* the next callback.  An item task is suspended only at its two awaits on *)
(* the InfluxDB client.                                                    *)
(***************************************************************************)
EXTENDS Integers, Sequences, FiniteSets, TLC

VARIABLES
  options,        \* the plugin configuration handed to the coordinator
  phase,          \* plugin lifecycle: "constructed", "running", "stopped"
  updateTimer,    \* plugin.updateTimer is set
  now,            \* Date.now()
  isReady,        \* UsageCoordinator.isReady
  isCalculating,  \* UsageCoordinator.isCalculating
  cache,          \* cache[e]: the Map of engine e, path -> {data, timestamp}
  groupCache,     \* UsageCoordinator.groupCache, group id -> {data, timestamp}
  tasks,          \* the calculateForItem calls suspended at an await
  running,        \* the coordinator calculateAll calls suspended at an await
  passCount,      \* number of passes started so far (the id of the newest)
  hist,           \* history: invocation counters and the last pass's record
  calc            \* a call of one of the engines' synchronous computations:
                  \* its arguments and, once it has returned, its result

vars == <<options, phase, updateTimer, now, isReady, isCalculating, cache,
          groupCache, tasks, running, passCount, hist, calc>>

\* the state of the coordinator, the engines' caches and the plugin
plugin == <<options, phase, updateTimer, now, isReady, isCalculating, cache,
            groupCache, tasks, running, passCount, hist>>

----------------------------------------------------------------------------
(* Bounds of the model *)

\* passes the coordinator may start
MaxPasses == 2
\* advances of the clock
MaxTime == 1
\* calculateAll calls dropped by the guard
MaxDropped == 1

----------------------------------------------------------------------------
(* Configuration *)

Engines == {"power", "tankage"}

\* a null entry of an item's periods array
Null == "null"

\* the message of the error a failed InfluxDB query rejects with
ErrMsg == "ETIMEDOUT"

Item(p, en, ps) == [path |-> p, enabled |-> en, periods |-> ps]

Group(id, ty, ps) == [id |-> id, type |-> ty, paths |-> ps]

\* a group object that has no paths property
GroupWithoutPaths(id, ty) == [id |-> id, type |-> ty]

Config(cr, pw, tk, gs) ==
  [cacheResults |-> cr, power |-> pw, tankage |-> tk, groups |-> gs]

\* a power item, a tank with two periods, a group over the tank
TwoPeriodTank ==
  Config(TRUE, <<Item("batt", TRUE, <<"1h">>)>>,
               <<Item("fuel", TRUE, <<"24h", "7d">>)>>,
               <<Group("allFuel", "tankage", <<"fuel">>)>>)

\* reporting.cacheResults = false
CacheOff ==
  Config(FALSE, <<Item("batt", TRUE, <<"1h">>)>>,
                <<Item("fuel", TRUE, <<"24h">>)>>, <<>>)

\* an item with enabled: false, and two items in one domain
DisabledItem ==
  Config(TRUE, <<Item("batt", FALSE, <<"1h">>)>>,
               <<Item("fuel", TRUE, <<"24h">>), Item("water", TRUE, <<"24h">>)>>,
               <<>>)

\* an item whose periods array holds a null entry after a valid one
NullPeriod ==
  Config(TRUE, <<Item("batt", TRUE, <<"1h", Null>>)>>,
               <<Item("fuel", TRUE, <<"24h">>)>>, <<>>)

\* a group without a paths array
BrokenGroup ==
  Config(TRUE, <<Item("batt", TRUE, <<"1h">>)>>,
               <<Item("fuel", TRUE, <<"24h">>)>>,
               <<GroupWithoutPaths("broken", "tankage")>>)

\* The configurations explored.  Paths are unique within a domain.
Configs == {TwoPeriodTank, CacheOff, DisabledItem, NullPeriod, BrokenGroup}

\* this.cacheEnabled = options.reporting?.cacheResults !== false
cacheEnabled == options.cacheResults # FALSE

\* (this.options.power || []).filter(item => item.enabled !== false), as indices
EnabledItems(e) == {i \in DOMAIN options[e] : options[e][i].enabled # FALSE}

ItemOf(t) == options[t.engine][t.item]

----------------------------------------------------------------------------
(* Maps (JavaScript objects and Map instances) as functions *)

EmptyMap == [x \in {} |-> x]

MapSet(m, k, v) == [x \in DOMAIN m \cup {k} |-> IF x = k THEN v ELSE m[x]]

\* { ...a, ...b }
Spread(a, b) == [x \in DOMAIN a \cup DOMAIN b |-> IF x \in DOMAIN b THEN b[x] ELSE a[x]]

----------------------------------------------------------------------------
(* Period results *)

Insufficient(reason) == [insufficientData |-> TRUE, reason |-> reason]

\* What the InfluxDB client can answer.  getFirstAndLast: the query rejects,
\* first or last is absent, or both are found.  queryPath: the query rejects,
\* fewer than 2 points, points that fail the coverage check, points that pass.
FirstLastOutcomes == {"reject", "absent", "found"}

AggregatedOutcomes == {"reject", "few", "uncovered", "covered"}

\* PowerEngine.calculateUsageForPeriod from the return of queryPath on
PowerAfterQueryPath(range, o) ==
  CASE o = "reject"    -> Insufficient(<<"Error: ", ErrMsg>>)
    [] o = "few"       -> Insufficient(<<"Insufficient data points">>)
    [] o = "uncovered" -> Insufficient(<<"Insufficient coverage">>)
    [] o = "covered"   -> [period |-> range,
                           energy |-> [consumedWh |-> 1, generatedWh |-> 0]]

\* TankageEngine.calculateUsageForPeriod from the return of queryPath on
TankageAfterQueryPath(range, o) ==
  CASE o = "reject"    -> Insufficient(<<"Database query failed">>)
    [] o = "few"       -> Insufficient(<<"Not enough data points">>)
    [] o = "uncovered" -> Insufficient(<<"Only x% coverage (need 70%)">>)
    [] o = "covered"   -> [period |-> range, consumed |-> 1, added |-> 0]

\* what the catch block of calculateForItem stores for a period
CatchResult(e, msg) ==
  IF e = "power" THEN [error |-> msg]
  ELSE Insufficient(<<"Error: ", msg>>)

----------------------------------------------------------------------------
(* An item task: one call of calculateForItem *)

\* the first query calculateUsageForPeriod awaits
FirstQuery(e) == IF e = "power" THEN "getFirstAndLast" ELSE "queryPath"

Cont(status, k, awaiting, periods) ==
  [status |-> status, k |-> k, awaiting |-> awaiting, periods |-> periods]

Rejected == Cont("rejected", 0, "none", EmptyMap)

\* The for loop of calculateForItem entering iteration k, run up to the next
\* await.  A null period makes calculateUsageForPeriod throw and then the
\* catch block throw on period.range, which rejects the task.
RunPeriods(e, item, periods, k) ==
  IF k > Len(item.periods) THEN Cont("resolved", k, "none", periods)
  ELSE IF item.periods[k] = Null THEN Rejected
  ELSE Cont("await", k, FirstQuery(e), periods)

\* itemData.periods[period.range] = usage, then the next iteration
StorePeriod(t, usage) ==
  LET item == ItemOf(t) IN
  RunPeriods(t.engine, item, MapSet(t.periods, item.periods[t.k], usage), t.k + 1)

\* calculateUsageForPeriod rejected with message msg: the catch block
CatchInItem(t, msg) == StorePeriod(t, CatchResult(t.engine, msg))

\* The task continues after the query it awaits answered o.
Continue(t, o) ==
  LET range == ItemOf(t).periods[t.k] IN
  IF t.engine = "power" THEN
    IF t.awaiting = "getFirstAndLast" THEN
      CASE o = "reject" -> CatchInItem(t, ErrMsg)
        [] o = "absent" ->
             StorePeriod(t, Insufficient(<<"No data available for this period">>))
        [] o = "found"  -> Cont("await", t.k, "queryPath", t.periods)
    ELSE StorePeriod(t, PowerAfterQueryPath(range, o))
  ELSE StorePeriod(t, TankageAfterQueryPath(range, o))

Outcomes(t) ==
  IF t.awaiting = "getFirstAndLast" THEN FirstLastOutcomes ELSE AggregatedOutcomes

Task(p, e, i, c) ==
  [pass |-> p, engine |-> e, item |-> i, k |-> c.k, awaiting |-> c.awaiting,
   periods |-> c.periods]

\* this.cache.set(path, {data: itemData, timestamp: Date.now()})
CacheSet(c, e, i, periods) ==
  IF cacheEnabled
  THEN [c EXCEPT ![e] = MapSet(@, options[e][i].path,
                    [data |-> [path |-> options[e][i].path, periods |-> periods],
                     timestamp |-> now])]
  ELSE c

----------------------------------------------------------------------------
(* UsageCoordinator: group totals and readers *)

\* PowerEngine/TankageEngine.getUsageData over the caches c
EngineUsageData(c, e) == [path \in DOMAIN c[e] |-> c[e][path].data]

\* data.items = { ...powerData, ...tankageData }
MergedItems(c) == Spread(EngineUsageData(c, "power"), EngineUsageData(c, "tankage"))

\* engine.getUsageForPath(path) is not null
HasItem(c, e, path) == e \in Engines /\ path \in DOMAIN c[e]

\* itemPeriod.consumed || 0, or itemPeriod.energy.consumedWh || 0 under
\* if (itemPeriod.energy)
Amount(ty, itemPeriod, f) ==
  IF ty = "power"
  THEN IF "energy" \in DOMAIN itemPeriod THEN itemPeriod.energy[f] ELSE 0
  ELSE IF f \in DOMAIN itemPeriod THEN itemPeriod[f] ELSE 0

\* the inner loop over group.paths (the first n of them) that adds field f
RECURSIVE GroupSum(_, _, _, _, _)
GroupSum(c, group, range, f, n) ==
  IF n = 0 THEN 0
  ELSE LET path == group.paths[n]
           rest == GroupSum(c, group, range, f, n - 1)
       IN IF HasItem(c, group.type, path)
             /\ range \in DOMAIN c[group.type][path].data.periods
          THEN rest + Amount(group.type, c[group.type][path].data.periods[range], f)
          ELSE rest

\* groupData of one group, from the item caches c
GroupData(c, group) ==
  LET members == {group.paths[n] : n \in DOMAIN group.paths}
      periodSet == UNION {DOMAIN c[group.type][path].data.periods :
                            path \in {q \in members : HasItem(c, group.type, q)}}
      n == Len(group.paths)
  IN [id |-> group.id, type |-> group.type, paths |-> group.paths,
      periods |->
        [range \in periodSet |->
           IF group.type = "tankage"
           THEN [period |-> range,
                 consumed |-> GroupSum(c, group, range, "consumed", n),
                 added |-> GroupSum(c, group, range, "added", n)]
           ELSE [period |-> range,
                 energy |-> [consumedWh |-> GroupSum(c, group, range, "consumedWh", n),
                             generatedWh |-> GroupSum(c, group, range, "generatedWh", n)]]]]

\* calculateGroups from group number n on: the group cache it leaves and
\* whether it threw (for (const path of group.paths) on a group without paths)
RECURSIVE calculateGroups(_, _, _)
calculateGroups(c, gc, n) ==
  IF n > Len(options.groups) THEN [threw |-> FALSE, groupCache |-> gc]
  ELSE LET group == options.groups[n] IN
       IF "paths" \notin DOMAIN group THEN [threw |-> TRUE, groupCache |-> gc]
       ELSE calculateGroups(c,
              IF cacheEnabled
              THEN MapSet(gc, group.id, [data |-> GroupData(c, group), timestamp |-> now])
              ELSE gc,
              n + 1)

\* getUsageData without the readiness test
getUsageData_NoReadyTest ==
  [timestamp |-> now, items |-> MergedItems(cache),
   groups |-> [g \in DOMAIN groupCache |-> groupCache[g].data], ready |-> isReady]

\* UsageCoordinator.getUsageData
getUsageData ==
  IF ~isReady
  THEN [timestamp |-> now, items |-> EmptyMap, groups |-> EmptyMap, ready |-> FALSE]
  ELSE [timestamp |-> now, items |-> MergedItems(cache),
        groups |-> [g \in DOMAIN groupCache |-> groupCache[g].data], ready |-> TRUE]

\* the null an engine's getUsageForPath returns for a path it has not cached
NullItem == [null |-> TRUE]

\* UsageCoordinator.getUsageForPath: the power engine first, then the
\* tankage engine
getUsageForPath(path) ==
  IF HasItem(cache, "power", path) THEN cache["power"][path].data
  ELSE IF HasItem(cache, "tankage", path) THEN cache["tankage"][path].data
  ELSE NullItem

----------------------------------------------------------------------------
(* UsageCoordinator.calculateAll *)

\* calculateAll without the guard
GuardBlocks_Never == FALSE

\* if (this.isCalculating) return
GuardBlocks == isCalculating

\* the flag cleared after the awaits instead of in a finally block
FlagAfterPass_NoFinally(ok) == ~ok

\* finally { this.isCalculating = false }, for a pass that ended well or not
FlagAfterPass(ok) == FALSE

\* this.isReady = true moved into the finally block
ReadyAfterPass_InFinally(ok, ready) == TRUE

\* this.isReady = true, reached only when nothing before it threw
ReadyAfterPass(ok, ready) == IF ok THEN TRUE ELSE ready

\* a pass that never settles
SettlePass_NeverEnds(p, run, ts, c, rejectedNow) ==
  [ended |-> FALSE, ok |-> FALSE, groupCache |-> groupCache]

\* The promise reactions of pass p after a turn that left the coordinator
\* calls run suspended, the tasks ts and the caches c, and in which an item
\* task of p rejected or not: Promise.all of an engine rejects with its first
\* rejected task and resolves when all its tasks have resolved, and so does
\* the coordinator's over the two engines.  A pass that has ended reacts to
\* nothing any more.
SettlePass(p, run, ts, c, rejectedNow) ==
  LET groups == calculateGroups(c, groupCache, 1) IN
  IF p \notin run
  THEN [ended |-> FALSE, ok |-> FALSE, groupCache |-> groupCache]
  ELSE IF rejectedNow
  THEN [ended |-> TRUE, ok |-> FALSE, groupCache |-> groupCache]
  ELSE IF \E u \in ts : u.pass = p
  THEN [ended |-> FALSE, ok |-> FALSE, groupCache |-> groupCache]
  ELSE [ended |-> TRUE, ok |-> ~groups.threw, groupCache |-> groups.groupCache]

\* the coordinator's variables and the history after the turn, for pass p
Settled(p, run, flag, ts, c, rejectedNow, h) ==
  \E s \in {SettlePass(p, run, ts, c, rejectedNow)} :
    /\ tasks' = ts
    /\ cache' = c
    /\ groupCache' = s.groupCache
    /\ running' = IF s.ended THEN run \ {p} ELSE run
    /\ isCalculating' = IF s.ended THEN FlagAfterPass(s.ok) ELSE flag
    /\ isReady' = IF s.ended THEN ReadyAfterPass(s.ok, isReady) ELSE isReady
    /\ hist' = IF ~s.ended THEN h
               ELSE [h EXCEPT !.last = IF s.ok THEN "ok" ELSE "failed",
                              !.completed = IF s.ok THEN @ + 1 ELSE @,
                              !.good = IF s.ok /\ ~h.failedQuery /\ h.snapshots
                                       THEN [items |-> MergedItems(c),
                                             timestamp |-> now, pass |-> p]
                                       ELSE @]

\* the calculateForItem calls of a pass in call order: the enabled power
\* items, then the enabled tankage items
CallKeys(e) == [i \in 1..Len(options[e]) |-> <<e, i>>]

IsEnabledKey(k) == k[2] \in EnabledItems(k[1])

CallOrder == SelectSeq(CallKeys("power") \o CallKeys("tankage"), IsEnabledKey)

\* a task from its call to its first await
FirstRun(k) == RunPeriods(k[1], options[k[1]][k[2]], EmptyMap, 1)

\* the caches after the first n calls, some of which may have run to their
\* cache write without awaiting anything
RECURSIVE StartWrites(_, _)
StartWrites(c, n) ==
  IF n = 0 THEN c
  ELSE LET k == CallOrder[n] IN
       IF FirstRun(k).status = "resolved"
       THEN CacheSet(StartWrites(c, n - 1), k[1], k[2], FirstRun(k).periods)
       ELSE StartWrites(c, n - 1)

\* calculateAll(): dropped by the guard, or a new pass whose engines start
\* one task per enabled item, each run up to its first await
calculateAll ==
  IF GuardBlocks
  THEN /\ hist.dropped < MaxDropped
       /\ hist' = [hist EXCEPT !.dropped = @ + 1]
       /\ UNCHANGED <<isReady, isCalculating, cache, groupCache, tasks, running,
                      passCount>>
  ELSE LET p == passCount + 1
           keys == {CallOrder[n] : n \in DOMAIN CallOrder}
           with(st) == {k \in keys : FirstRun(k).status = st}
           started == {Task(p, k[1], k[2], FirstRun(k)) : k \in with("await")}
           h == [hist EXCEPT
                   !.engineCalls = [e \in Engines |-> @[e] + 1],
                   !.failedQuery = FALSE,
                   !.written = [e \in Engines |->
                     IF cacheEnabled
                     THEN {options[e][k[2]].path : k \in {x \in with("resolved") : x[1] = e}}
                     ELSE {}],
                   !.rejected = [e \in Engines |-> \E k \in with("rejected") : k[1] = e]]
       IN /\ passCount < MaxPasses
          /\ passCount' = p
          /\ Settled(p, running \cup {p}, TRUE, tasks \cup started,
                     StartWrites(cache, Len(CallOrder)), with("rejected") # {}, h)

----------------------------------------------------------------------------
(* The turns of the event loop *)

\* plugin.start, after the ping: the initial calculation and setInterval
InitialCalculation ==
  /\ phase = "constructed"
  /\ calculateAll
  /\ phase' = "running"
  /\ updateTimer' = TRUE
  /\ UNCHANGED <<options, now, calc>>

\* the setInterval callback
TimerTick ==
  /\ updateTimer
  /\ calculateAll
  /\ UNCHANGED <<options, phase, updateTimer, now, calc>>

\* the cache write moved into the loop over the periods
CacheWriteDue_EachPeriod(c) == c.status \in {"resolved", "await"}

\* if (this.cacheEnabled) this.cache.set(...) after the loop over the periods
CacheWriteDue(c) == c.status = "resolved"

\* an InfluxDB query of task t completes with outcome o
QueryReturn(t, o) ==
  \E c \in {Continue(t, o)} :
    LET e == t.engine
        newest == t.pass = passCount
        ts == (tasks \ {t}) \cup
              (IF c.status = "await" THEN {Task(t.pass, e, t.item, c)} ELSE {})
        cacheAfter == IF CacheWriteDue(c) THEN CacheSet(cache, e, t.item, c.periods)
                      ELSE cache
        h == IF ~newest THEN hist
             ELSE [hist EXCEPT
                     !.failedQuery = @ \/ o = "reject",
                     !.written[e] = IF CacheWriteDue(c) /\ cacheEnabled
                                    THEN @ \cup {ItemOf(t).path} ELSE @,
                     !.rejected[e] = @ \/ c.status = "rejected"]
    IN /\ Settled(t.pass, running, isCalculating, ts, cacheAfter,
                  c.status = "rejected", h)
       /\ UNCHANGED <<options, phase, updateTimer, now, passCount, calc>>

QueryCompletes == \E t \in tasks : \E o \in Outcomes(t) : QueryReturn(t, o)

\* PowerEngine.stop and TankageEngine.stop: this.cache.clear()
ClearedCaches == [e \in Engines |-> EmptyMap]

\* plugin.stop: clearInterval, then UsageCoordinator.stop
PluginStop ==
  /\ phase = "running"
  /\ phase' = "stopped"
  /\ updateTimer' = FALSE
  /\ cache' = ClearedCaches
  /\ groupCache' = EmptyMap
  /\ UNCHANGED <<options, now, isReady, isCalculating, tasks, running, passCount,
                 hist, calc>>

\* time passes
ClockAdvances ==
  /\ now < MaxTime
  /\ now' = now + 1
  /\ UNCHANGED <<options, phase, updateTimer, isReady, isCalculating, cache,
                 groupCache, tasks, running, passCount, hist, calc>>

\* The history at construction.  good is the snapshot served at the end of
\* the last pass that completed without a failed query, kept when snapshots
\* is set.
NoHistory(snapshots) ==
  [engineCalls |-> [e \in Engines |-> 0],
   dropped |-> 0,
   completed |-> 0,
   last |-> "none",
   failedQuery |-> FALSE,
   written |-> [e \in Engines |-> {}],
   rejected |-> [e \in Engines |-> FALSE],
   snapshots |-> snapshots,
   good |-> [items |-> EmptyMap, timestamp |-> 0, pass |-> 0]]

\* new UsageCoordinator(app, influxClient, options)
Constructed ==
  /\ phase = "constructed"
  /\ updateTimer = FALSE
  /\ now = 0
  /\ isReady = FALSE
  /\ isCalculating = FALSE
  /\ cache = ClearedCaches
  /\ groupCache = EmptyMap
  /\ tasks = {}
  /\ running = {}
  /\ passCount = 0

\* no synchronous computation is being looked at
NoCall == [fn |-> "none"]

Init ==
  /\ options \in Configs
  /\ Constructed
  /\ hist = NoHistory(FALSE)
  /\ calc = NoCall

Next ==
  \/ InitialCalculation
  \/ TimerTick
  \/ QueryCompletes
  \/ PluginStop
  \/ ClockAdvances

Spec == Init /\ [][Next]_vars

\* the same program over two of the configurations, with the snapshot of
\* each good pass kept in the history
InitSnapshots ==
  /\ options \in {DisabledItem, NullPeriod}
  /\ Constructed
  /\ hist = NoHistory(TRUE)
  /\ calc = NoCall

SpecSnapshots == InitSnapshots /\ [][Next]_vars

\* two tanks in a tankage group, and a power group that also names a path
\* that is not configured
GroupedTanks ==
  Config(TRUE, <<Item("batt", TRUE, <<"1h">>)>>,
               <<Item("fuel", TRUE, <<"24h">>), Item("water", TRUE, <<"24h">>)>>,
               <<Group("allTanks", "tankage", <<"fuel", "water">>),
                 Group("house", "power", <<"batt", "solar">>)>>)

\* reporting.cacheResults = false with a group
GroupedCacheOff ==
  Config(FALSE, <<Item("batt", TRUE, <<"1h">>)>>,
                <<Item("fuel", TRUE, <<"24h">>)>>,
                <<Group("allTanks", "tankage", <<"fuel">>)>>)

\* the same program over the two configurations with groups
InitGroups ==
  /\ options \in {GroupedTanks, GroupedCacheOff}
  /\ Constructed
  /\ hist = NoHistory(FALSE)
  /\ calc = NoCall

SpecGroups == InitGroups /\ [][Next]_vars

\* one path configured as a power item and as a tankage item
SharedPath ==
  Config(TRUE, <<Item("gen", TRUE, <<"1h">>)>>,
               <<Item("gen", TRUE, <<"1h">>)>>, <<>>)

\* the same program over the configuration with a shared path
InitSharedPath ==
  /\ options = SharedPath
  /\ Constructed
  /\ hist = NoHistory(FALSE)
  /\ calc = NoCall

SpecSharedPath == InitSharedPath /\ [][Next]_vars

\* The same program when every query the InfluxDB client has been asked
\* eventually returns or fails: the completion of a pending query is not put
\* off for ever.
InitLive ==
  /\ options \in {CacheOff, NullPeriod, BrokenGroup}
  /\ Constructed
  /\ hist = NoHistory(FALSE)
  /\ calc = NoCall

SpecLive == InitLive /\ [][Next]_vars /\ WF_vars(QueryCompletes)

----------------------------------------------------------------------------
(* Strings.  Where the code looks inside a string (includes, toLowerCase,   *)
(* a regular expression) the string is a sequence of one-character strings. *)

\* s.includes(w)
Includes(s, w) ==
  \E n \in 1..(Len(s) - Len(w) + 1) : SubSeq(s, n, n + Len(w) - 1) = w

\* the upper-case letters that occur in the paths explored
UpperCase == {"S", "B", "P", "A"}

\* one character of String.prototype.toLowerCase
LowerChar(ch) ==
  CASE ch = "S" -> "s"
    [] ch = "B" -> "b"
    [] ch = "P" -> "p"
    [] ch = "A" -> "a"
    [] OTHER -> ch

\* path.toLowerCase()
toLowerCase(s) == [n \in DOMAIN s |-> LowerChar(s[n])]

\* a.b
Dotted(a, b) == a \o <<".">> \o b

----------------------------------------------------------------------------
(* PowerEngine: directionality *)

\* the words the paths explored are made of
PathWords ==
  { <<"s","o","l","a","r">>, <<"S","o","l","a","r">>,
    <<"p","a","n","e","l">>, <<"P","A","N","E","L">>,
    <<"a","l","t","e","r","n","a","t","o","r">>,
    <<"a","c","i","n">>, <<"A","c","I","n">>, <<"p","l","a","c","i","n","g">>,
    <<"s","h","o","r","e">>,
    <<"b","a","t","t","e","r","y">>, <<"B","a","t","t","e","r","y">>,
    <<"a","c","o","u","t">>,
    <<"l","o","a","d">> }

\* the paths explored: one word, or two words joined by a dot
Paths == PathWords \cup {Dotted(a, b) : a \in PathWords, b \in PathWords}

\* item.directionality of an item configured without one
Undefined == "undefined"

\* the values of item.directionality explored
Directionalities ==
  {Undefined, "", "producer", "consumer", "bidirectional-normal",
   "bidirectional-reversed", "generator"}

\* the detection rule for batteries tried first
autoDetectDirectionalityType_BatteryFirst(path) ==
  LET pathLower == toLowerCase(path)
      has(w) == Includes(pathLower, w) IN
  IF has(<<"b","a","t","t","e","r","y">>) /\ ~has(<<"a","c","o","u","t">>)
  THEN "bidirectional-reversed"
  ELSE IF \/ has(<<"s","o","l","a","r">>)
          \/ has(<<"p","a","n","e","l">>)
          \/ has(<<"a","l","t","e","r","n","a","t","o","r">>)
  THEN "producer"
  ELSE IF has(<<"a","c","i","n">>) \/ has(<<"s","h","o","r","e">>)
  THEN "consumer"
  ELSE "bidirectional-normal"

\* PowerEngine.prototype.autoDetectDirectionalityType
autoDetectDirectionalityType(path) ==
  LET pathLower == toLowerCase(path)
      has(w) == Includes(pathLower, w) IN
  IF \/ has(<<"s","o","l","a","r">>)
     \/ has(<<"p","a","n","e","l">>)
     \/ has(<<"a","l","t","e","r","n","a","t","o","r">>)
  THEN "producer"
  ELSE IF has(<<"a","c","i","n">>) \/ has(<<"s","h","o","r","e">>)
  THEN "consumer"
  ELSE IF has(<<"b","a","t","t","e","r","y">>) /\ ~has(<<"a","c","o","u","t">>)
  THEN "bidirectional-reversed"
  ELSE "bidirectional-normal"

\* !effectiveDirectionality
Falsy(directionality) == directionality \in {Undefined, ""}

\* calculateUsageForPeriod: let effectiveDirectionality = directionality;
\* if (!effectiveDirectionality) effectiveDirectionality = autoDetect...(path)
effectiveDirectionality(path, directionality) ==
  IF Falsy(directionality) THEN autoDetectDirectionalityType(path)
  ELSE directionality

\* the producer also credited with the negative bucket
RECURSIVE applyDirectionality_ProducerKeepsNegative(_, _, _, _)
applyDirectionality_ProducerKeepsNegative(path, directionality, positiveEnergyWh, negativeEnergyWh) ==
  CASE directionality = "producer" ->
         [consumedWh |-> negativeEnergyWh, generatedWh |-> positiveEnergyWh,
          appliedDirectionality |-> "producer (explicit)", calls |-> 1]
    [] directionality = "consumer" ->
         [consumedWh |-> positiveEnergyWh, generatedWh |-> 0,
          appliedDirectionality |-> "consumer (explicit)", calls |-> 1]
    [] directionality = "bidirectional-normal" ->
         [consumedWh |-> negativeEnergyWh, generatedWh |-> positiveEnergyWh,
          appliedDirectionality |-> "bidirectional-normal (explicit)", calls |-> 1]
    [] directionality = "bidirectional-reversed" ->
         [consumedWh |-> positiveEnergyWh, generatedWh |-> negativeEnergyWh,
          appliedDirectionality |-> "bidirectional-reversed (explicit)", calls |-> 1]
    [] OTHER ->
         LET detectedType == autoDetectDirectionalityType(path)
             r == applyDirectionality_ProducerKeepsNegative(
                    path, detectedType, positiveEnergyWh, negativeEnergyWh)
         IN [r EXCEPT !.calls = @ + 1]

\* PowerEngine.prototype.applyDirectionality; calls counts the invocations
\* made, the recursive one of the default branch included
RECURSIVE applyDirectionality(_, _, _, _)
applyDirectionality(path, directionality, positiveEnergyWh, negativeEnergyWh) ==
  CASE directionality = "producer" ->
         [consumedWh |-> 0, generatedWh |-> positiveEnergyWh,
          appliedDirectionality |-> "producer (explicit)", calls |-> 1]
    [] directionality = "consumer" ->
         [consumedWh |-> positiveEnergyWh, generatedWh |-> 0,
          appliedDirectionality |-> "consumer (explicit)", calls |-> 1]
    [] directionality = "bidirectional-normal" ->
         [consumedWh |-> negativeEnergyWh, generatedWh |-> positiveEnergyWh,
          appliedDirectionality |-> "bidirectional-normal (explicit)", calls |-> 1]
    [] directionality = "bidirectional-reversed" ->
         [consumedWh |-> positiveEnergyWh, generatedWh |-> negativeEnergyWh,
          appliedDirectionality |-> "bidirectional-reversed (explicit)", calls |-> 1]
    [] OTHER ->
         LET detectedType == autoDetectDirectionalityType(path)
             r == applyDirectionality(path, detectedType, positiveEnergyWh,
                                      negativeEnergyWh)
         IN [r EXCEPT !.calls = @ + 1]

\* the energy buckets explored, in Wh
MaxBucket == 2
Buckets == 0..MaxBucket

\* the program at rest while one of its synchronous computations is followed
AtRest ==
  /\ options = CacheOff
  /\ Constructed
  /\ hist = NoHistory(FALSE)

\* calculateUsageForPeriod is called for an item with the path and the
\* directionality; the buckets are what the integration will hand over
InitDirectionality ==
  /\ AtRest
  /\ calc \in [fn : {"directionality"}, path : Paths,
               directionality : Directionalities,
               positiveEnergyWh : Buckets, negativeEnergyWh : Buckets,
               step : {"called"}]

\* calculateUsageForPeriod, lines 100-104
DetermineDirectionality ==
  /\ calc.fn = "directionality"
  /\ calc.step = "called"
  /\ calc' = [fn |-> "directionality", path |-> calc.path,
              directionality |-> calc.directionality,
              positiveEnergyWh |-> calc.positiveEnergyWh,
              negativeEnergyWh |-> calc.negativeEnergyWh,
              step |-> "determined",
              effective |-> effectiveDirectionality(calc.path, calc.directionality)]
  /\ UNCHANGED plugin

\* calculateUsageForPeriod, line 248: this.applyDirectionality(path,
\* effectiveDirectionality, positiveEnergyWh, negativeEnergyWh)
ApplyDirectionality ==
  /\ calc.fn = "directionality"
  /\ calc.step = "determined"
  /\ calc' = [fn |-> "directionality", path |-> calc.path,
              directionality |-> calc.directionality,
              positiveEnergyWh |-> calc.positiveEnergyWh,
              negativeEnergyWh |-> calc.negativeEnergyWh,
              step |-> "applied",
              effective |-> calc.effective,
              result |-> applyDirectionality(calc.path, calc.effective,
                           calc.positiveEnergyWh, calc.negativeEnergyWh)]
  /\ UNCHANGED plugin

NextDirectionality == DetermineDirectionality \/ ApplyDirectionality

SpecDirectionality == InitDirectionality /\ [][NextDirectionality]_vars

----------------------------------------------------------------------------
(* PowerEngine: the integration pass.  Time is in seconds, power in W and   *)
(* energy in half watt-seconds, so that the average of two integer values   *)
(* times the elapsed time is an integer: 7200 units are 1 Wh.               *)

Digits == {"0", "1", "2", "3", "4", "5", "6", "7", "8", "9"}

DigitValue(ch) ==
  CASE ch = "0" -> 0 [] ch = "1" -> 1 [] ch = "2" -> 2 [] ch = "3" -> 3
    [] ch = "4" -> 4 [] ch = "5" -> 5 [] ch = "6" -> 6 [] ch = "7" -> 7
    [] ch = "8" -> 8 [] ch = "9" -> 9

\* parseInt of a string of digits
RECURSIVE parseInt(_)
parseInt(ds) ==
  IF Len(ds) = 0 THEN 0
  ELSE 10 * parseInt(SubSeq(ds, 1, Len(ds) - 1)) + DigitValue(ds[Len(ds)])

\* str.match(/^(\d+)([smhd])$/) is not null
Matches(str) ==
  /\ Len(str) >= 2
  /\ str[Len(str)] \in {"s", "m", "h", "d"}
  /\ \A n \in 1..(Len(str) - 1) : str[n] \in Digits

\* match[1] as a number and match[2]
MatchValue(str) == parseInt(SubSeq(str, 1, Len(str) - 1))
MatchUnit(str) == str[Len(str)]

\* PowerEngine.prototype.parseAggregationWindow, in seconds (the minutes
\* the code returns, times 60); 60 minutes when the string does not parse
parseAggregationWindow(aggregation) ==
  IF ~Matches(aggregation) THEN 3600
  ELSE LET value == MatchValue(aggregation) IN
       CASE MatchUnit(aggregation) = "s" -> value
         [] MatchUnit(aggregation) = "m" -> value * 60
         [] MatchUnit(aggregation) = "h" -> value * 3600
         [] MatchUnit(aggregation) = "d" -> value * 86400

\* The numbers of seconds below 1000 for which the double
\* (value / 60) * 2 * 60 * 1000 is less than 2000 * value: value / 60 is
\* rounded, and the three products keep or round the error downwards.
RoundedDown ==
  {123, 245, 246, 247, 490, 492, 494, 505, 507, 509, 965, 969, 973, 980, 984,
   988, 995, 999}

\* gapThresholdMs = expectedIntervalMinutes * 2 * 60 * 1000, as seconds and
\* whether the double computed lies just below that number of seconds
gapThreshold(aggregation) ==
  [seconds |-> 2 * parseAggregationWindow(aggregation),
   below |-> /\ Matches(aggregation)
             /\ MatchUnit(aggregation) = "s"
             /\ MatchValue(aggregation) \in RoundedDown]

\* timeDiffMs > gapThresholdMs, for timestamps on whole seconds
IsGap(timeDiff, threshold) ==
  \/ timeDiff > threshold.seconds
  \/ threshold.below /\ timeDiff = threshold.seconds

Abs(x) == IF x < 0 THEN 0 - x ELSE x

NoEnergy == [positiveEnergyWh |-> 0, negativeEnergyWh |-> 0, skippedNoise |-> 0]

\* energy > 0 ? positiveEnergyWh += energy : negativeEnergyWh += |energy|
Accumulate(acc, energy) ==
  IF energy > 0
  THEN [acc EXCEPT !.positiveEnergyWh = @ + energy]
  ELSE [acc EXCEPT !.negativeEnergyWh = @ + Abs(energy)]

\* the noise test removed
ShouldSkip_Never(directionality, avgPower2) == FALSE

\* shouldSkip of one pair; avgPower2 is p1.value + p2.value
ShouldSkip(directionality, avgPower2) ==
  \/ directionality = "producer" /\ avgPower2 < 0
  \/ directionality = "consumer" /\ avgPower2 < 0

\* one iteration of the integration loop over the pair p1, p2
IntegratePair(acc, p1, p2, directionality, threshold) ==
  LET timeDiff == p2.timestamp - p1.timestamp
      avgPower2 == p1.value + p2.value
  IN  IF ShouldSkip(directionality, avgPower2)
      THEN [acc EXCEPT !.skippedNoise = @ + 1]
      ELSE IF IsGap(timeDiff, threshold)
      THEN Accumulate(acc, 2 * p1.value * timeDiff)
      ELSE Accumulate(acc, avgPower2 * timeDiff)

\* the integration loop up to and including the pair that ends at point n
RECURSIVE Integrate(_, _, _, _)
Integrate(dataPoints, directionality, threshold, n) ==
  IF n <= 1 THEN NoEnergy
  ELSE IntegratePair(Integrate(dataPoints, directionality, threshold, n - 1),
                     dataPoints[n - 1], dataPoints[n], directionality, threshold)

\* usage.energy of calculateUsageForPeriod for dataPoints that passed the
\* coverage check: the loop, then applyDirectionality
calculateEnergy(path, directionality, aggregation, dataPoints) ==
  LET effective == effectiveDirectionality(path, directionality)
      acc == Integrate(dataPoints, effective, gapThreshold(aggregation),
                       Len(dataPoints))
      result == applyDirectionality(path, effective, acc.positiveEnergyWh,
                                    acc.negativeEnergyWh)
  IN  [consumedWh |-> result.consumedWh, generatedWh |-> result.generatedWh,
       calls |-> result.calls]

\* the longest sample sequence explored
MaxPoints == 3

\* seconds between consecutive samples, and sample values in W
Spacings == {120, 180, 246}
Values == {-100, 80, 100}

\* the aggregation windows explored; "auto" does not parse
Aggregations ==
  { <<"6","0","s">>, <<"1","2","3","s">>, <<"a","u","t","o">> }

RECURSIVE TimeOf(_, _)
TimeOf(spacing, n) == IF n = 1 THEN 0 ELSE TimeOf(spacing, n - 1) + spacing[n - 1]

\* the rows queryPath resolves with: ascending in time
DataPoints(spacing, values) ==
  [n \in DOMAIN values |-> [timestamp |-> TimeOf(spacing, n), value |-> values[n]]]

SampleSequences ==
  UNION { {DataPoints(sp, vs) : sp \in [1..(n - 1) -> Spacings],
                                vs \in [1..n -> Values]} : n \in 2..MaxPoints }

EnergyPaths == { <<"s","o","l","a","r">>, <<"b","a","t","t","e","r","y">> }

EnergyDirectionalities ==
  {Undefined, "producer", "consumer", "bidirectional-normal", "generator"}

\* calculateUsageForPeriod has received dataPoints that pass the coverage
\* check and is about to integrate them
InitEnergy ==
  /\ AtRest
  /\ \E path \in EnergyPaths, directionality \in EnergyDirectionalities,
        aggregation \in Aggregations, dataPoints \in SampleSequences :
       calc = [fn |-> "energy", path |-> path, directionality |-> directionality,
               aggregation |-> aggregation, dataPoints |-> dataPoints,
               effective |-> effectiveDirectionality(path, directionality),
               step |-> "integrating", i |-> 1,
               acc |-> NoEnergy, before |-> NoEnergy,
               result |-> [consumedWh |-> 0, generatedWh |-> 0, calls |-> 0]]

\* one iteration of the for loop: the pair that ends at point i + 1
IntegrateNext ==
  /\ calc.fn = "energy"
  /\ calc.step = "integrating"
  /\ calc.i < Len(calc.dataPoints)
  /\ calc' = [calc EXCEPT
                !.i = @ + 1,
                !.before = calc.acc,
                !.acc = IntegratePair(calc.acc, calc.dataPoints[calc.i],
                                      calc.dataPoints[calc.i + 1], calc.effective,
                                      gapThreshold(calc.aggregation))]
  /\ UNCHANGED plugin

\* the loop has ended: applyDirectionality and usage.energy
FinishEnergy ==
  /\ calc.fn = "energy"
  /\ calc.step = "integrating"
  /\ calc.i = Len(calc.dataPoints)
  /\ calc' = [calc EXCEPT
                !.step = "applied",
                !.result = calculateEnergy(calc.path, calc.directionality,
                                           calc.aggregation, calc.dataPoints)]
  /\ UNCHANGED plugin

NextEnergy == IntegrateNext \/ FinishEnergy

SpecEnergy == InitEnergy /\ [][NextEnergy]_vars

----------------------------------------------------------------------------
(* PowerEngine: the coverage check.  Timestamps are seconds since the epoch, *)
(* UTC; a range is held in seconds (the hours the code computes, times 3600) *)

\* PowerEngine.prototype.parseTimeRange, in seconds; 1 hour when the string
\* does not parse
parseTimeRange(range) ==
  IF ~Matches(range) THEN 3600
  ELSE LET value == MatchValue(range) IN
       CASE MatchUnit(range) = "s" -> value
         [] MatchUnit(range) = "m" -> value * 60
         [] MatchUnit(range) = "h" -> value * 3600
         [] MatchUnit(range) = "d" -> value * 86400

\* Math.ceil(a / b) for a >= 0 and b > 0
Ceil(a, b) == (a + b - 1) \div b

\* the UTC calendar day and the UTC calendar hour of a timestamp: what the
\* year-month-day and year-month-day-hour strings identify
UTCDay(timestamp) == timestamp \div 86400
UTCHour(timestamp) == timestamp \div 3600

\* every range checked by the hour
DailyCoverage_Never(rangeSeconds) == FALSE

\* if (rangeHours >= 24)
DailyCoverage(rangeSeconds) == rangeSeconds >= 86400

\* uniquePeriods, expectedPeriods and periodType of the coverage check
Coverage(range, dataPoints) ==
  LET rangeSeconds == parseTimeRange(range) IN
  IF DailyCoverage(rangeSeconds)
  THEN [uniquePeriods |-> Cardinality({UTCDay(dataPoints[n].timestamp) : n \in DOMAIN dataPoints}),
        expectedPeriods |-> Ceil(rangeSeconds, 86400),
        periodType |-> "days"]
  ELSE [uniquePeriods |-> Cardinality({UTCHour(dataPoints[n].timestamp) : n \in DOMAIN dataPoints}),
        expectedPeriods |-> Ceil(rangeSeconds, 3600),
        periodType |-> "hours"]

\* `Insufficient coverage (${uniquePeriods}/${expectedPeriods} ${periodType})`
CoverageReason(c) ==
  <<"Insufficient coverage (", c.uniquePeriods, "/", c.expectedPeriods, " ",
    c.periodType, ")">>

\* calculateUsageForPeriod from the answer of queryPath to its return value
usageOfDataPoints(item, period, dataPoints) ==
  IF Len(dataPoints) < 2
  THEN Insufficient(<<"Insufficient data points">>)
  ELSE LET c == Coverage(period.range, dataPoints) IN
       IF c.uniquePeriods < c.expectedPeriods
       THEN Insufficient(CoverageReason(c))
       ELSE [period |-> period.range,
             energy |-> calculateEnergy(item.path, item.directionality,
                                        period.aggregation, dataPoints)]

\* the most samples in a sequence explored by the coverage check
MaxSamples == 25

\* the ranges explored; "auto" does not parse
Ranges ==
  { <<"1","h">>, <<"2","h">>, <<"9","0","m">>, <<"2","4","h">>, <<"3","6","h">>,
    <<"1","d">>, <<"2","d">>, <<"a","u","t","o">> }

\* seconds between the samples of a sequence, and the time of its first one
Steps == {900, 3600, 21600, 86400}
Starts == {0, 3000, 84600}

\* n samples of 10 W, step seconds apart, from start
Regular(start, step, n) ==
  [k \in 1..n |-> [timestamp |-> start + (k - 1) * step, value |-> 10]]

\* queryPath has answered
InitCoverage ==
  /\ AtRest
  /\ \E range \in Ranges, start \in Starts, step \in Steps, n \in 0..MaxSamples :
       calc = [fn |-> "coverage",
               item |-> [path |-> <<"l","o","a","d">>, directionality |-> Undefined],
               period |-> [range |-> range, aggregation |-> <<"1","d">>],
               dataPoints |-> Regular(start, step, n),
               step |-> "answered"]

\* calculateUsageForPeriod runs from the answer to its return
CheckCoverage ==
  /\ calc.fn = "coverage"
  /\ calc.step = "answered"
  /\ calc' = [fn |-> "coverage", item |-> calc.item, period |-> calc.period,
              dataPoints |-> calc.dataPoints, step |-> "returned",
              usage |-> usageOfDataPoints(calc.item, calc.period, calc.dataPoints)]
  /\ UNCHANGED plugin

NextCoverage == CheckCoverage

SpecCoverage == InitCoverage /\ [][NextCoverage]_vars

----------------------------------------------------------------------------
(* TankageEngine: the coverage check and the change-detection walk.  The    *)
(* repository holds the engine twice: src/unnamed/part_003 smooths the      *)
(* samples and tests the covered share of the range;                        *)
(* src/plugin/lib/tankageEngine.js, the module the coordinator requires as  *)
(* './tankageEngine', tests calendar buckets and walks the raw samples.     *)
(* Timestamps are milliseconds since the epoch.  A level is a whole number  *)
(* of 1/120 gallon-equivalent, and the levels explored are multiples of 12, *)
(* so that the average of up to four of them is a whole number.             *)

MIN_TIME_BETWEEN_POINTS_MS == 2 * 60 * 1000
\* a duration test of 2 minutes
ADDITION_MIN_DURATION_MS_TwoMinutes == 2 * 60 * 1000
ADDITION_MIN_DURATION_MS == 5 * 60 * 1000
SMALL_TANK_ADDITION_GAL == 1
LARGE_TANK_ADDITION_GAL == 5
\* one gallon-equivalent, in units of level
GAL_TO_M3 == 120
SMOOTHING_WINDOW_MS == 6 * 60 * 60 * 1000
LARGE_REFILL_THRESHOLD_GAL == 10
LARGE_REFILL_THRESHOLD_M3 == LARGE_REFILL_THRESHOLD_GAL * GAL_TO_M3
\* const MIN_TIME_DIFF_MS of tankageEngine.js
MIN_TIME_DIFF_MS == 2 * 60 * 1000

\* the two engines
SmoothedEngine == "src/unnamed/part_003"
RawEngine == "src/plugin/lib/tankageEngine.js"
TankageEngines == {SmoothedEngine, RawEngine}

\* lastTime - firstTime of at least one sample, in milliseconds
CoveredMs(dataPoints) ==
  dataPoints[Len(dataPoints)].timestamp - dataPoints[1].timestamp

\* the minutes m for which ((0.7 * m * 60000) / 3600000) / (m / 60) * 100 is
\* 69.99999999999999 in IEEE double arithmetic, among those below 400
RoundedBelow70 == {23, 46, 92, 184, 249, 368}

\* coveragePercent < 70, for a range that is not zero
BelowSeventyPercent(range, coveredMs) ==
  LET rangeMs == parseTimeRange(range) * 1000 IN
  \/ 10 * coveredMs < 7 * rangeMs
  \/ /\ 10 * coveredMs = 7 * rangeMs
     /\ Matches(range)
     /\ MatchUnit(range) = "m"
     /\ MatchValue(range) \in RoundedBelow70

\* coveragePercent.toFixed(0), the timestamps explored being whole seconds
PercentToFixed(range, coveredMs) ==
  LET rangeSeconds == parseTimeRange(range)
      coveredSeconds == coveredMs \div 1000
  IN  (200 * coveredSeconds + rangeSeconds) \div (2 * rangeSeconds)

\* additionThresholdM3
additionThresholdM3(item) ==
  LET isLargeTank == item.largeTank \/ FALSE
      additionThresholdGal == IF isLargeTank THEN LARGE_TANK_ADDITION_GAL
                              ELSE SMALL_TANK_ADDITION_GAL
  IN  additionThresholdGal * GAL_TO_M3

\* step 1: the indices of the large refills in the raw samples
largeRefillIndices(dataPoints) ==
  { i \in 2..Len(dataPoints) :
      dataPoints[i].value - dataPoints[i - 1].value >= LARGE_REFILL_THRESHOLD_M3 }

RECURSIVE SumOfValues(_, _)
\* windowPoints.reduce((sum, p) => sum + p.value, 0)
SumOfValues(dataPoints, indices) ==
  IF indices = {} THEN 0
  ELSE LET j == CHOOSE j \in indices : TRUE IN
       dataPoints[j].value + SumOfValues(dataPoints, indices \ {j})

\* step 2: the samples after the 6-hour moving average; a large refill keeps
\* its raw value, and the window of a later sample starts at the latest refill
smoothedPoints(dataPoints) ==
  LET refills == largeRefillIndices(dataPoints) IN
  [i \in DOMAIN dataPoints |->
     IF i \in refills THEN dataPoints[i]
     ELSE LET windowStart == dataPoints[i].timestamp - SMOOTHING_WINDOW_MS
              earlier == {k \in refills : k <= i}
              startIndex == IF earlier = {} THEN 1
                            ELSE CHOOSE k \in earlier : \A l \in earlier : l <= k
              windowPoints == { j \in startIndex..i :
                                  dataPoints[j].timestamp >= windowStart }
              avgValue == SumOfValues(dataPoints, windowPoints)
                            \div Cardinality(windowPoints)
          IN  [timestamp |-> dataPoints[i].timestamp, value |-> avgValue]]

\* the totals and the tracked point before the first iteration of a walk
StartOfWalk(points) ==
  [totalConsumed |-> 0, totalAdded |-> 0, lastTrackedPoint |-> points[1]]

\* the tracked point moves only when a total was updated
WalkSmoothed_TrackedOnUpdate(w, currPoint, item) ==
  LET prevPoint == w.lastTrackedPoint
      timeDiffMs == currPoint.timestamp - prevPoint.timestamp
      changeM3 == currPoint.value - prevPoint.value
      meetsQuantity == changeM3 >= additionThresholdM3(item)
      meetsDuration == timeDiffMs >= ADDITION_MIN_DURATION_MS
      adds == changeM3 > 0 /\ meetsQuantity /\ meetsDuration
  IN  IF timeDiffMs < MIN_TIME_BETWEEN_POINTS_MS THEN w
      ELSE [totalConsumed |-> IF changeM3 < 0 THEN w.totalConsumed + Abs(changeM3)
                              ELSE w.totalConsumed,
            totalAdded |-> IF adds THEN w.totalAdded + changeM3 ELSE w.totalAdded,
            lastTrackedPoint |-> IF adds \/ changeM3 < 0 THEN currPoint
                                 ELSE prevPoint]

\* step 3, one iteration of the loop of processDataPoints
WalkSmoothed(w, currPoint, item) ==
  LET prevPoint == w.lastTrackedPoint
      timeDiffMs == currPoint.timestamp - prevPoint.timestamp
      changeM3 == currPoint.value - prevPoint.value
      meetsQuantity == changeM3 >= additionThresholdM3(item)
      meetsDuration == timeDiffMs >= ADDITION_MIN_DURATION_MS
  IN  IF timeDiffMs < MIN_TIME_BETWEEN_POINTS_MS THEN w
      ELSE [totalConsumed |-> IF changeM3 < 0 THEN w.totalConsumed + Abs(changeM3)
                              ELSE w.totalConsumed,
            totalAdded |-> IF changeM3 > 0 /\ meetsQuantity /\ meetsDuration
                           THEN w.totalAdded + changeM3
                           ELSE w.totalAdded,
            lastTrackedPoint |-> currPoint]

\* one iteration of the loop of tankageEngine.js
WalkRaw(w, curr) ==
  LET prev == w.lastTrackedPoint
      timeDiffMs == curr.timestamp - prev.timestamp
      change == curr.value - prev.value
  IN  IF timeDiffMs >= MIN_TIME_DIFF_MS
      THEN [totalConsumed |-> IF change < 0 THEN w.totalConsumed + Abs(change)
                              ELSE w.totalConsumed,
            totalAdded |-> IF change > 0 THEN w.totalAdded + change
                           ELSE w.totalAdded,
            lastTrackedPoint |-> curr]
      ELSE w

\* the most samples in a sequence explored by the walk
MaxTankPoints == 3

\* the levels explored: 10, 10.5, 12.4 and 21.2 gallon-equivalent
Levels == {1200, 1260, 1488, 2544}

\* milliseconds between one sample and the next
TankSpacings == {60000, 240000, 600000, 966000, 30600000}

\* the ranges explored
TankRanges == { <<"1","0","m">>, <<"2","3","m">>, <<"1","2","h">> }

RECURSIVE TankTimeOf(_, _)
\* the timestamp of sample n, the first one at the epoch
TankTimeOf(spacing, n) ==
  IF n = 1 THEN 0 ELSE TankTimeOf(spacing, n - 1) + spacing[n - 1]

\* an answer of queryPath: samples spaced as given, with the levels given
TankDataPoints(spacing, level) ==
  [n \in DOMAIN level |-> [timestamp |-> TankTimeOf(spacing, n), value |-> level[n]]]

\* queryPath has answered with up to MaxTankPoints samples that lie within
\* the range asked for
InitTankage ==
  /\ AtRest
  /\ \E len \in 0..MaxTankPoints :
     \E spacing \in [1..(len - 1) -> TankSpacings], level \in [1..len -> Levels] :
     \E dataPoints \in {TankDataPoints(spacing, level)} :
     \E engine \in TankageEngines, range \in TankRanges, largeTank \in BOOLEAN :
       /\ Len(dataPoints) >= 1 => CoveredMs(dataPoints) <= parseTimeRange(range) * 1000
       /\ calc = [fn |-> "tankage", engine |-> engine,
                  item |-> [largeTank |-> largeTank],
                  period |-> [range |-> range],
                  dataPoints |-> dataPoints,
                  step |-> "answered"]

\* part_003: from the answer of queryPath to the call of processDataPoints
CheckedBySmoothedEngine(c) ==
  IF Len(c.dataPoints) < 2
  THEN [c EXCEPT !.step = "returned",
                 !.usage = Insufficient(<<"Not enough data points">>)]
  ELSE IF BelowSeventyPercent(c.period.range, CoveredMs(c.dataPoints))
  THEN [c EXCEPT !.step = "returned",
                 !.usage = Insufficient(<<"Only ",
                              PercentToFixed(c.period.range, CoveredMs(c.dataPoints)),
                              "% coverage (need 70%)">>)]
  ELSE [c EXCEPT !.step = "walking", !.i = 2,
                 !.points = smoothedPoints(c.dataPoints),
                 !.walk = StartOfWalk(smoothedPoints(c.dataPoints))]

\* tankageEngine.js: from the answer of queryPath to the start of its loop
CheckedByRawEngine(c) ==
  IF Len(c.dataPoints) < 2
  THEN [c EXCEPT !.step = "returned",
                 !.usage = Insufficient(<<"Insufficient data points">>)]
  ELSE LET b == Coverage(c.period.range,
                         [n \in DOMAIN c.dataPoints |->
                            [timestamp |-> c.dataPoints[n].timestamp \div 1000,
                             value |-> c.dataPoints[n].value]]) IN
       IF b.uniquePeriods < b.expectedPeriods
       THEN [c EXCEPT !.step = "returned",
                      !.usage = Insufficient(CoverageReason(b))]
       ELSE [c EXCEPT !.step = "walking", !.i = 2,
                      !.points = c.dataPoints,
                      !.walk = StartOfWalk(c.dataPoints)]

\* the fields of a tankage calculation that are not set yet
Unset(c) ==
  [fn |-> c.fn, engine |-> c.engine, item |-> c.item, period |-> c.period,
   dataPoints |-> c.dataPoints, step |-> c.step, i |-> 0, points |-> <<>>,
   walk |-> <<>>, before |-> <<>>, usage |-> <<>>]

\* the count and coverage checks of calculateUsageForPeriod
CheckTankCoverage ==
  /\ calc.fn = "tankage"
  /\ calc.step = "answered"
  /\ calc' = IF calc.engine = SmoothedEngine
             THEN CheckedBySmoothedEngine(Unset(calc))
             ELSE CheckedByRawEngine(Unset(calc))
  /\ UNCHANGED plugin

\* one iteration of the walk
WalkNext ==
  /\ calc.fn = "tankage"
  /\ calc.step = "walking"
  /\ calc.i <= Len(calc.points)
  /\ calc' = [calc EXCEPT
                !.before = calc.walk,
                !.walk = IF calc.engine = SmoothedEngine
                         THEN WalkSmoothed(calc.walk, calc.points[calc.i], calc.item)
                         ELSE WalkRaw(calc.walk, calc.points[calc.i]),
                !.i = calc.i + 1]
  /\ UNCHANGED plugin

\* the loop is over: consumed and added are returned
FinishWalk ==
  /\ calc.fn = "tankage"
  /\ calc.step = "walking"
  /\ calc.i > Len(calc.points)
  /\ calc' = [calc EXCEPT !.step = "returned",
                          !.usage = [consumed |-> calc.walk.totalConsumed,
                                     added |-> calc.walk.totalAdded]]
  /\ UNCHANGED plugin

NextTankage == CheckTankCoverage \/ WalkNext \/ FinishWalk

SpecTankage == InitTankage /\ [][NextTankage]_vars

----------------------------------------------------------------------------
(* TankageEngine: processDataPoints as a whole, calculateTankageFromData,   *)
(* and the custom-range query route that calls it.                          *)

RECURSIVE WalkFrom(_, _, _, _)
\* step 3 of processDataPoints from iteration i on
WalkFrom(points, i, w, item) ==
  IF i > Len(points) THEN w
  ELSE WalkFrom(points, i + 1, WalkSmoothed(w, points[i], item), item)

\* processDataPoints, called with at least two samples
processDataPoints(dataPoints, item) ==
  LET w == WalkFrom(smoothedPoints(dataPoints), 2,
                    StartOfWalk(smoothedPoints(dataPoints)), item)
  IN  [consumed |-> w.totalConsumed, added |-> w.totalAdded]

RECURSIVE SumFromData(_, _, _)
\* windowPoints.reduce((sum, p) => sum + p.value, 0) over indices from..to
SumFromData(windowPoints, from, to) ==
  IF from > to THEN 0
  ELSE windowPoints[from].value + SumFromData(windowPoints, from + 1, to)

\* steps 1 and 2 of calculateTankageFromData
SmoothedFromData(dataPoints) ==
  LET largeRefill(i) ==
        i >= 2 /\ dataPoints[i].value - dataPoints[i - 1].value >= LARGE_REFILL_THRESHOLD_M3
      startIndex(i) ==
        IF \E k \in 1..i : largeRefill(k)
        THEN CHOOSE k \in 1..i : largeRefill(k) /\ \A l \in (k + 1)..i : ~largeRefill(l)
        ELSE 1
      windowPoints(i) ==
        SelectSeq(SubSeq(dataPoints, startIndex(i), i),
                  LAMBDA p : p.timestamp >= dataPoints[i].timestamp - SMOOTHING_WINDOW_MS)
  IN  [i \in DOMAIN dataPoints |->
         IF largeRefill(i)
         THEN [timestamp |-> dataPoints[i].timestamp, value |-> dataPoints[i].value]
         ELSE [timestamp |-> dataPoints[i].timestamp,
               value |-> SumFromData(windowPoints(i), 1, Len(windowPoints(i)))
                           \div Len(windowPoints(i))]]

RECURSIVE WalkFromData(_, _, _, _, _)
\* step 3 of calculateTankageFromData from iteration i on
WalkFromData(smoothed, i, lastTrackedPoint, totals, additionThreshold) ==
  IF i > Len(smoothed) THEN totals
  ELSE LET currPoint == smoothed[i]
           timeDiffMs == currPoint.timestamp - lastTrackedPoint.timestamp
           changeM3 == currPoint.value - lastTrackedPoint.value
       IN  IF timeDiffMs < MIN_TIME_BETWEEN_POINTS_MS
           THEN WalkFromData(smoothed, i + 1, lastTrackedPoint, totals, additionThreshold)
           ELSE WalkFromData(smoothed, i + 1, currPoint,
                  [consumed |-> IF changeM3 < 0 THEN totals.consumed + Abs(changeM3)
                                ELSE totals.consumed,
                   added |-> IF /\ changeM3 > 0
                                /\ changeM3 >= additionThreshold
                                /\ timeDiffMs >= ADDITION_MIN_DURATION_MS
                             THEN totals.added + changeM3 ELSE totals.added],
                  additionThreshold)

\* a calculateTankageFromData that walks the raw samples
calculateTankageFromData_Unsmoothed(dataPoints, isLargeTank) ==
  IF Len(dataPoints) < 2 THEN [consumed |-> 0, added |-> 0]
  ELSE LET additionThresholdGal == IF isLargeTank THEN LARGE_TANK_ADDITION_GAL
                                   ELSE SMALL_TANK_ADDITION_GAL
       IN  WalkFromData(dataPoints, 2, dataPoints[1], [consumed |-> 0, added |-> 0],
                        additionThresholdGal * GAL_TO_M3)

\* calculateTankageFromData(dataPoints, isLargeTank); isLargeTank is the
\* truthiness of the second argument
calculateTankageFromData(dataPoints, isLargeTank) ==
  IF Len(dataPoints) < 2 THEN [consumed |-> 0, added |-> 0]
  ELSE LET additionThresholdGal == IF isLargeTank THEN LARGE_TANK_ADDITION_GAL
                                   ELSE SMALL_TANK_ADDITION_GAL
           smoothed == SmoothedFromData(dataPoints)
       IN  WalkFromData(smoothed, 2, smoothed[1], [consumed |-> 0, added |-> 0],
                        additionThresholdGal * GAL_TO_M3)

\* findItemConfig(path) for the path of a configured tankage item
findItemConfig(item) == [type |-> "tankage", largeTank |-> item.largeTank]

\* the body of the answer of POST /api/query once queryPathCustomRange has
\* resolved; calculateTankageFromData is called with one argument, so its
\* isLargeTank is undefined, which is falsy
QueryResponse(item, dataPoints) ==
  IF Len(dataPoints) = 0
  THEN [data |-> <<>>, message |-> "No data found for the specified range"]
  ELSE LET itemConfig == findItemConfig(item)
           isPower == itemConfig.type = "power"
       IN  [data |-> dataPoints,
            type |-> IF isPower THEN "power" ELSE "tankage",
            tankage |-> calculateTankageFromData(dataPoints, FALSE)]

\* samples of a configured tank are at hand; nothing has been computed
InitFromData ==
  /\ AtRest
  /\ \E len \in 0..MaxTankPoints :
     \E spacing \in [1..(len - 1) -> TankSpacings], level \in [1..len -> Levels] :
     \E largeTank \in BOOLEAN :
       calc = [fn |-> "fromData",
               item |-> [largeTank |-> largeTank],
               dataPoints |-> TankDataPoints(spacing, level),
               done |-> {},
               cached |-> [consumed |-> 0, added |-> 0],
               adhoc |-> [consumed |-> 0, added |-> 0],
               response |-> [data |-> <<>>]]

\* calculateUsageForPeriod calls processDataPoints, which it does for two
\* samples or more
CallProcessDataPoints ==
  /\ calc.fn = "fromData"
  /\ "processDataPoints" \notin calc.done
  /\ Len(calc.dataPoints) >= 2
  /\ calc' = [calc EXCEPT !.done = @ \cup {"processDataPoints"},
                          !.cached = processDataPoints(calc.dataPoints, calc.item)]
  /\ UNCHANGED plugin

\* calculateTankageFromData is called with the large flag of the item
CallCalculateTankageFromData ==
  /\ calc.fn = "fromData"
  /\ "calculateTankageFromData" \notin calc.done
  /\ calc' = [calc EXCEPT !.done = @ \cup {"calculateTankageFromData"},
                          !.adhoc = calculateTankageFromData(calc.dataPoints,
                                                             calc.item.largeTank)]
  /\ UNCHANGED plugin

\* POST /api/query answers for the path of the item
PostQuery ==
  /\ calc.fn = "fromData"
  /\ "query" \notin calc.done
  /\ calc' = [calc EXCEPT !.done = @ \cup {"query"},
                          !.response = QueryResponse(calc.item, calc.dataPoints)]
  /\ UNCHANGED plugin

NextFromData == CallProcessDataPoints \/ CallCalculateTankageFromData \/ PostQuery

SpecFromData == InitFromData /\ [][NextFromData]_vars

----------------------------------------------------------------------------
(* Claims *)

\* a pass ends in this step
PassEnds == \E p \in running : p \notin running'

\* a calculateAll call is dropped by the guard in this step
CallDropped == hist'.dropped > hist.dropped

\* C1 - Single-flight: at most one coordinator pass is in progress in every
\* reachable state and each engine has been invoked exactly once per pass
\* started; a call made while a pass is in progress starts no pass (it changes
\* nothing of the coordinator, the engines or the caches, and invokes no
\* engine); and the step that ends a pass starts no pass and no task.
C1_SingleFlight ==
  /\ [](/\ Cardinality(running) <= 1
        /\ \A e \in Engines : hist.engineCalls[e] = passCount)
  /\ [][/\ isCalculating => passCount' = passCount
        /\ CallDropped =>
             /\ UNCHANGED <<isReady, isCalculating, cache, groupCache, tasks,
                            running, passCount>>
             /\ hist'.engineCalls = hist.engineCalls
        /\ PassEnds => passCount' = passCount /\ tasks' \subseteq tasks]_vars

\* a second call arrived during the first pass and was dropped
C1_Witness ==
  /\ hist.dropped > 0
  /\ running = {1}
  /\ hist.engineCalls = [e \in Engines |-> 1]

\* C2 - Guard release: the in-progress flag is set exactly while a pass is in
\* progress, so it is false after every pass end, whether the pass completed,
\* an engine call rejected or the group calculation rejected; and a call is
\* dropped only while a pass is in progress, so the call after a pass end
\* starts a pass.
C2_GuardReleased ==
  /\ [](isCalculating <=> running # {})
  /\ [][/\ PassEnds => ~isCalculating'
        /\ CallDropped => running # {}]_vars

\* a pass failed and the next call started a new pass
C2_Witness ==
  /\ hist.last = "failed"
  /\ running = {2}
  /\ isCalculating

\* C3 - Readiness: the flag is true exactly when some pass has completed (both
\* engine calls resolved and the pass ended normally), also when queries of
\* that pass failed; once true it stays true, through later passes and stop().
C3_Readiness ==
  /\ [](isReady <=> hist.completed > 0)
  /\ [][isReady => isReady']_vars

\* ready after a pass with a failed query, and still ready after stop()
C3_Witness ==
  /\ isReady
  /\ hist.completed = 1
  /\ hist.failedQuery
  /\ phase = "stopped"

\* C4 - While the coordinator has never been ready, getUsageData() returns
\* ready: false and no items, whatever the engine caches hold.
C4_NotReadyEmpty ==
  ~isReady => /\ getUsageData.ready = FALSE
              /\ DOMAIN getUsageData.items = {}
              /\ getUsageData.timestamp = now

\* the first pass is in progress and a cache entry has been written
C4_Witness ==
  /\ ~isReady
  /\ running = {1}
  /\ \E e \in Engines : DOMAIN cache[e] # {}

\* the enabled items of engine e configured with the path
ItemsAt(e, path) == {i \in EnabledItems(e) : options[e][i].path = path}

\* the ranges of the configured periods of item i of engine e
ConfiguredRanges(e, i) ==
  {options[e][i].periods[k] : k \in DOMAIN options[e][i].periods}

\* every entry of every periods array is a period object
ValidPeriods ==
  \A e \in Engines : \A i \in DOMAIN options[e] : Null \notin ConfiguredRanges(e, i)

\* the newest pass has ended and nothing it started is still running
NewestPassOver ==
  /\ passCount > 0
  /\ running = {}
  /\ \A t \in tasks : t.pass # passCount

\* C5 - Merge completeness: after a successful pass, getUsageData().items has
\* an entry for every enabled configured item of both domains and none for an
\* item configured with enabled: false, in every configuration.
C5_MergeCompleteness ==
  (hist.last = "ok" /\ NewestPassOver /\ phase = "running") =>
    \A e \in Engines : \A i \in DOMAIN options[e] :
      LET path == options[e][i].path IN
      IF i \in EnabledItems(e)
      THEN path \in DOMAIN getUsageData.items
      ELSE (\A d \in Engines : ItemsAt(d, path) = {}) =>
             path \notin DOMAIN getUsageData.items

\* C6 - Error isolation: when a query failed in a pass over well-formed
\* periods, each engine's calculateAll() still resolved, every enabled item of
\* both engines had its cache entry written in that pass, and each entry
\* holds a result for every period of its item.
C6_ErrorIsolation ==
  (hist.failedQuery /\ NewestPassOver /\ ValidPeriods /\ phase = "running") =>
    \A e \in Engines :
      /\ ~hist.rejected[e]
      /\ hist.written[e] = {options[e][i].path : i \in EnabledItems(e)}
      /\ \A i \in EnabledItems(e) :
            /\ options[e][i].path \in DOMAIN cache[e]
            /\ DOMAIN cache[e][options[e][i].path].data.periods
                 = ConfiguredRanges(e, i)

\* the reasons the engines give for missing or thin data
DataReasons ==
  { <<"No data available for this period">>,
    <<"Insufficient data points">>,
    <<"Insufficient coverage">>,
    <<"Not enough data points">>,
    <<"Only x% coverage (need 70%)">> }

\* the reason holds the text of the error
CarriesError(reason) == \E n \in DOMAIN reason : reason[n] = ErrMsg

\* a result computed from the data, or an insufficient-data result whose
\* reason is a data condition or holds the error text
WellFormedResult(r) ==
  \/ "period" \in DOMAIN r
  \/ /\ DOMAIN r = {"insufficientData", "reason"}
     /\ r.insufficientData = TRUE
     /\ r.reason \in DataReasons \/ CarriesError(r.reason)

\* C7 - A failed backend query never rejects an item task (only a malformed
\* period does), and every cached period result is either computed from the
\* data or {insufficientData: true, reason}, the reason of a failed query
\* holding the text of the underlying error.
C7_FailureAsInsufficient ==
  /\ \A e \in Engines : hist.rejected[e] => ~ValidPeriods
  /\ \A e \in Engines : \A path \in DOMAIN cache[e] :
       \A range \in DOMAIN cache[e][path].data.periods :
         WellFormedResult(cache[e][path].data.periods[range])

\* the newest pass has ended, and it rejected or one of its queries failed
PassFailed ==
  /\ NewestPassOver
  /\ hist.last = "failed" \/ hist.failedQuery

\* C8 - After a pass fails, getUsageData() returns the items of the last good
\* snapshot and the timestamp of that snapshot.
C8_LastGoodSnapshot ==
  (PassFailed /\ hist.good.pass > 0 /\ phase = "running") =>
    /\ getUsageData.items = hist.good.items
    /\ getUsageData.timestamp = hist.good.timestamp

\* a task of the item at path of engine e ran its last period in this step
ItemFinishes(e, path) ==
  \E t \in tasks :
    /\ t.engine = e
    /\ ItemOf(t).path = path
    /\ t.k = Len(ItemOf(t).periods)
    /\ \A u \in tasks' : ~(u.pass = t.pass /\ u.engine = e /\ u.item = t.item)

\* C9 - Partial-item granularity: every cache entry holds a result for every
\* configured period of its item, never a subset, and an entry is created or
\* replaced only in the step in which a task of that item finishes its last
\* period.
C9_WholeItems ==
  /\ [](\A e \in Engines : \A path \in DOMAIN cache[e] :
          /\ ItemsAt(e, path) # {}
          /\ \A i \in ItemsAt(e, path) :
                DOMAIN cache[e][path].data.periods = ConfiguredRanges(e, i))
  /\ [][\A e \in Engines : \A path \in DOMAIN cache'[e] :
          (path \notin DOMAIN cache[e] \/ cache'[e][path] # cache[e][path])
            => ItemFinishes(e, path)]_vars

\* a later pass has computed the first of the two periods of the tank while
\* readers still see the whole entry of the pass before
C9_Witness ==
  /\ "fuel" \in DOMAIN cache["tankage"]
  /\ DOMAIN cache["tankage"]["fuel"].data.periods = {"24h", "7d"}
  /\ \E t \in tasks : /\ t.engine = "tankage"
                       /\ ItemOf(t).path = "fuel"
                       /\ DOMAIN t.periods = {"24h"}

\* the task runs to the cache write unless a malformed period rejects it
WillWrite(t) == cacheEnabled /\ Null \notin ConfiguredRanges(t.engine, t.item)

\* C10 - One writer per path: for each engine and each path at most one item
\* task that will write that path's cache entry is in flight.
C10_OneWriterPerPath ==
  \A t \in tasks : \A u \in tasks :
    (/\ WillWrite(t)
     /\ WillWrite(u)
     /\ t.engine = u.engine
     /\ ItemOf(t).path = ItemOf(u).path) => t = u

\* C11 - No early release: whenever the in-progress flag is false, no item
\* task of any pass is still running.
C11_NoEarlyRelease == ~isCalculating => tasks = {}

\* C12 - Effective directionality: an explicit directionality value is used
\* as it is; an absent or empty one is detected from the lower-cased path by
\* the ordered rules solar/panel/alternator -> producer, acin/shore ->
\* consumer, battery without acout -> bidirectional-reversed, else
\* bidirectional-normal, the first matching rule winning.
C12_EffectiveDirectionality ==
  (calc.fn = "directionality" /\ calc.step # "called") =>
    LET contains(w) == Includes(toLowerCase(calc.path), w)
        producer == \/ contains(<<"s","o","l","a","r">>)
                    \/ contains(<<"p","a","n","e","l">>)
                    \/ contains(<<"a","l","t","e","r","n","a","t","o","r">>)
        consumer == contains(<<"a","c","i","n">>) \/ contains(<<"s","h","o","r","e">>)
        reversed == /\ contains(<<"b","a","t","t","e","r","y">>)
                    /\ ~contains(<<"a","c","o","u","t">>)
    IN  IF calc.directionality \notin {Undefined, ""}
        THEN calc.effective = calc.directionality
        ELSE /\ producer => calc.effective = "producer"
             /\ (~producer /\ consumer) => calc.effective = "consumer"
             /\ (~producer /\ ~consumer /\ reversed) =>
                   calc.effective = "bidirectional-reversed"
             /\ (~producer /\ ~consumer /\ ~reversed) =>
                   calc.effective = "bidirectional-normal"

\* a path with both 'Solar' and 'battery' and no configured directionality
\* was detected as a producer
C12_Witness ==
  /\ calc.fn = "directionality"
  /\ calc.step = "determined"
  /\ calc.directionality = Undefined
  /\ calc.path = Dotted(<<"S","o","l","a","r">>, <<"b","a","t","t","e","r","y">>)
  /\ calc.effective = "producer"

\* C13 - Directionality mapping: producer -> (0, positive bucket), consumer
\* -> (positive bucket, 0), bidirectional-normal -> (negative bucket,
\* positive bucket), bidirectional-reversed -> (positive bucket, negative
\* bucket), as (consumedWh, generatedWh).
C13_DirectionalityMapping ==
  (calc.fn = "directionality" /\ calc.step = "applied") =>
    LET pos == calc.positiveEnergyWh
        neg == calc.negativeEnergyWh
        is(c, g) == calc.result.consumedWh = c /\ calc.result.generatedWh = g
    IN  /\ calc.effective = "producer" => is(0, pos)
        /\ calc.effective = "consumer" => is(pos, 0)
        /\ calc.effective = "bidirectional-normal" => is(neg, pos)
        /\ calc.effective = "bidirectional-reversed" => is(pos, neg)

\* a producer with something in the negative bucket
C13_Witness ==
  /\ calc.fn = "directionality"
  /\ calc.step = "applied"
  /\ calc.effective = "producer"
  /\ calc.negativeEnergyWh = 2
  /\ calc.positiveEnergyWh = 1
  /\ calc.result.generatedWh = 1
  /\ calc.result.consumedWh = 0

\* the four values applyDirectionality has a case for
Recognized ==
  {"producer", "consumer", "bidirectional-normal", "bidirectional-reversed"}

\* C14 - Unrecognized directionality: for an item whose configured
\* directionality is none of the four recognized values, the energy of the
\* period is the one the auto-detected directionality of its path gives for
\* the same samples, and applyDirectionality is entered twice: the call and
\* one retry.
C14_UnrecognizedFallsBack ==
  (/\ calc.fn = "energy"
   /\ calc.step = "applied"
   /\ ~Falsy(calc.directionality)
   /\ calc.directionality \notin Recognized) =>
    LET detected == calculateEnergy(calc.path, autoDetectDirectionalityType(calc.path),
                                    calc.aggregation, calc.dataPoints)
    IN  /\ calc.result.consumedWh = detected.consumedWh
        /\ calc.result.generatedWh = detected.generatedWh
        /\ calc.result.calls = 2

\* the pair the loop has just processed, and the doubled average of its values
LastP1 == calc.dataPoints[calc.i - 1]
LastP2 == calc.dataPoints[calc.i]
LastElapsed == LastP2.timestamp - LastP1.timestamp
LastAverage2 == LastP1.value + LastP2.value

\* what the last pair added to the buckets, signed: positive minus negative
LastContribution ==
  (calc.acc.positiveEnergyWh - calc.before.positiveEnergyWh)
    - (calc.acc.negativeEnergyWh - calc.before.negativeEnergyWh)

\* the last pair is one that the noise rule discards
LastIsNoise == calc.effective \in {"producer", "consumer"} /\ LastAverage2 < 0

\* the aggregation window the period is configured with, in seconds
NominalWindow ==
  MatchValue(calc.aggregation) *
    (CASE MatchUnit(calc.aggregation) = "s" -> 1
       [] MatchUnit(calc.aggregation) = "m" -> 60
       [] MatchUnit(calc.aggregation) = "h" -> 3600
       [] MatchUnit(calc.aggregation) = "d" -> 86400)

\* C15 - Gap hold-last-value: a pair that is not discarded as noise and whose
\* elapsed time is strictly greater than twice the aggregation window
\* contributes the earlier value times the elapsed time; every other pair that
\* is not discarded contributes the average of the two values times the
\* elapsed time.
C15_GapHoldLastValue ==
  (/\ calc.fn = "energy"
   /\ calc.i >= 2
   /\ Matches(calc.aggregation)
   /\ ~LastIsNoise) =>
    IF LastElapsed > 2 * NominalWindow
    THEN LastContribution = 2 * LastP1.value * LastElapsed
    ELSE LastContribution = LastAverage2 * LastElapsed

\* C16 - Noise discard: for effective directionality producer or consumer a
\* pair whose average is negative adds nothing to either bucket, gap or not;
\* every other pair, and every pair of any other directionality, is
\* accumulated: its energy (hold-last-value or trapezoidal) goes to the
\* positive bucket when positive and to the negative bucket otherwise.
C16_NoiseDiscard ==
  (calc.fn = "energy" /\ calc.i >= 2) =>
    IF LastIsNoise
    THEN /\ calc.acc.positiveEnergyWh = calc.before.positiveEnergyWh
         /\ calc.acc.negativeEnergyWh = calc.before.negativeEnergyWh
    ELSE /\ calc.acc.skippedNoise = calc.before.skippedNoise
         /\ \E energy \in {2 * LastP1.value * LastElapsed, LastAverage2 * LastElapsed} :
              IF energy > 0
              THEN /\ calc.acc.positiveEnergyWh = calc.before.positiveEnergyWh + energy
                   /\ calc.acc.negativeEnergyWh = calc.before.negativeEnergyWh
              ELSE /\ calc.acc.positiveEnergyWh = calc.before.positiveEnergyWh
                   /\ calc.acc.negativeEnergyWh = calc.before.negativeEnergyWh - energy

\* a producer's pair 80 W, -100 W across a gap was discarded after an
\* earlier pair had been accumulated
C16_Witness ==
  /\ calc.fn = "energy"
  /\ calc.i = 3
  /\ calc.effective = "producer"
  /\ calc.aggregation = <<"6","0","s">>
  /\ LastP1.value = 80
  /\ LastP2.value = -100
  /\ LastElapsed = 180
  /\ calc.before.positiveEnergyWh > 0
  /\ calc.acc.positiveEnergyWh = calc.before.positiveEnergyWh
  /\ calc.acc.skippedNoise = 1

\* the calendar buckets of the claim: days for a range of 24 h or more, hours
\* below, and the number of distinct buckets the samples fall in
ClaimBucket == IF parseTimeRange(calc.period.range) >= 86400 THEN 86400 ELSE 3600
ClaimDistinct ==
  Cardinality({calc.dataPoints[n].timestamp \div ClaimBucket : n \in DOMAIN calc.dataPoints})
ClaimExpected == Ceil(parseTimeRange(calc.period.range), ClaimBucket)

\* C17 - Power coverage check: with at least two samples, the period is
\* insufficient, with the reason 'X/Y days' or 'X/Y hours', exactly when the
\* number X of distinct UTC calendar buckets (days when the range is 24 h or
\* more, hours when it is less) is below Y = ceil(range / bucket size); an
\* insufficient result holds no energy and a sufficient one does.
C17_PowerCoverage ==
  (/\ calc.fn = "coverage"
   /\ calc.step = "returned"
   /\ Matches(calc.period.range)
   /\ Len(calc.dataPoints) >= 2) =>
    IF ClaimDistinct < ClaimExpected
    THEN calc.usage =
           Insufficient(<<"Insufficient coverage (", ClaimDistinct, "/", ClaimExpected,
                          " ", IF ClaimBucket = 86400 THEN "days" ELSE "hours", ")">>)
    ELSE "insufficientData" \notin DOMAIN calc.usage /\ "energy" \in DOMAIN calc.usage

\* a 36 h range with samples on one calendar day only: 1/2 days
C17_Witness ==
  /\ calc.fn = "coverage"
  /\ calc.step = "returned"
  /\ calc.period.range = <<"3","6","h">>
  /\ Len(calc.dataPoints) = 24
  /\ calc.usage = Insufficient(<<"Insufficient coverage (", 1, "/", 2, " ", "days", ")">>)

\* C18 - Coverage gating: for a 24h range, samples that cover only 12 of the
\* 24 expected hourly buckets yield insufficientData: true.
C18_HalfCoveredDay ==
  (/\ calc.fn = "coverage"
   /\ calc.step = "returned"
   /\ calc.period.range = <<"2","4","h">>
   /\ Cardinality({UTCHour(calc.dataPoints[n].timestamp) : n \in DOMAIN calc.dataPoints}) = 12) =>
    /\ "insufficientData" \in DOMAIN calc.usage
    /\ calc.usage.insufficientData = TRUE

\* the nominal duration of the range of the tankage period, in milliseconds
NominalRangeMs ==
  LET range == calc.period.range IN
  MatchValue(range) * 1000 * (CASE MatchUnit(range) = "s" -> 1
                                [] MatchUnit(range) = "m" -> 60
                                [] MatchUnit(range) = "h" -> 3600
                                [] MatchUnit(range) = "d" -> 86400)

\* a tankage period whose count and coverage checks are over, with at least
\* two aggregated points
TankageChecked ==
  /\ calc.fn = "tankage"
  /\ calc.step \in {"walking", "returned"}
  /\ Len(calc.dataPoints) >= 2

\* C19: a tankage period with at least 2 aggregated points is insufficient
\* exactly when the time from its first sample to its last one is less than
\* 70% of the nominal duration of the range; at 70% or more the period goes on
\* to the change-detection walk and returns its result.
C19_TankageCoverage ==
  TankageChecked =>
    IF 10 * CoveredMs(calc.dataPoints) < 7 * NominalRangeMs
    THEN calc.step = "returned" /\ "insufficientData" \in DOMAIN calc.usage
    ELSE \/ calc.step = "walking"
         \/ calc.step = "returned" /\ DOMAIN calc.usage = {"consumed", "added"}

\* the walk has just run an iteration on a sample at least 2 minutes after
\* the tracked point
WalkedOne ==
  /\ calc.fn = "tankage"
  /\ calc.step \in {"walking", "returned"}
  /\ calc.i > 2
  /\ calc.points[calc.i - 1].timestamp - calc.before.lastTrackedPoint.timestamp
       >= 2 * 60 * 1000

\* the change and the elapsed time since the tracked point in that iteration
WalkedChange ==
  calc.points[calc.i - 1].value - calc.before.lastTrackedPoint.value
WalkedElapsed ==
  calc.points[calc.i - 1].timestamp - calc.before.lastTrackedPoint.timestamp

\* the size threshold of the item: 5 gallon-equivalent for a large tank, 1 for
\* a normal one
SizeThreshold == IF calc.item.largeTank THEN 5 * 120 ELSE 120

\* C20: in the change-detection walk an increase since the tracked point is
\* added to 'added' only if it is at least the size threshold and at least 5
\* minutes have passed since the tracked point; otherwise it is counted in
\* neither total.  A decrease is added to 'consumed' whatever its size.
C20_AdditionThreshold ==
  WalkedOne =>
    /\ calc.walk.totalAdded - calc.before.totalAdded =
         IF /\ WalkedChange >= SizeThreshold
            /\ WalkedElapsed >= 5 * 60 * 1000
         THEN WalkedChange ELSE 0
    /\ calc.walk.totalConsumed - calc.before.totalConsumed =
         IF WalkedChange < 0 THEN 0 - WalkedChange ELSE 0

\* the walk has run at least one iteration
Walked ==
  /\ calc.fn = "tankage"
  /\ calc.step \in {"walking", "returned"}
  /\ calc.i > 2

\* the sample of the latest iteration and the point tracked before it
WalkedSample == calc.points[calc.i - 1]
TrackedBefore == calc.before.lastTrackedPoint

C22_LargeTankThreshold ==
  (calc.fn = "fromData" /\ calc.item.largeTank) =>
    /\ additionThresholdM3(calc.item) = 5 * GAL_TO_M3
    /\ ("query" \in calc.done /\ Len(calc.dataPoints) >= 2) =>
         calc.response.tankage = calculateTankageFromData(calc.dataPoints, TRUE)

\* C25: for two samples or more and the same large flag
\* calculateTankageFromData returns the consumed and added of
\* processDataPoints; for fewer than two samples it returns 0 and 0; it leaves
\* the caches alone.
C25_SameAlgorithm ==
  (calc.fn = "fromData" /\ "calculateTankageFromData" \in calc.done) =>
    /\ "processDataPoints" \in calc.done => calc.adhoc = calc.cached
    /\ Len(calc.dataPoints) < 2 => calc.adhoc = [consumed |-> 0, added |-> 0]
    /\ cache = [power |-> << >>, tankage |-> << >>]
    /\ groupCache = << >>

\* both entry points have run on three samples with a large refill in the
\* middle, and something was added and something consumed
C25_Witness ==
  /\ calc.fn = "fromData"
  /\ {"processDataPoints", "calculateTankageFromData"} \subseteq calc.done
  /\ Len(calc.dataPoints) = 3
  /\ largeRefillIndices(calc.dataPoints) = {2}
  /\ calc.adhoc.added > 0
  /\ calc.adhoc.consumed > 0

\* the samples whose raw value is at least 10 gallon-equivalent above the
\* previous raw sample
Refills ==
  { r \in 2..Len(calc.dataPoints) :
      calc.dataPoints[r].value - calc.dataPoints[r - 1].value >= 10 * 120 }

\* the raw samples a smoothing window of sample j may hold: those from the
\* latest refill up to j (from the first sample when there is none) that are
\* at most 6 hours older than j
WindowOf(j) ==
  { k \in 1..j :
      /\ \A r \in Refills : r <= j => k >= r
      /\ calc.dataPoints[j].timestamp - calc.dataPoints[k].timestamp <= 6 * 3600 * 1000 }

\* C23: a sample at least 10 gallon-equivalent above the previous raw sample
\* keeps its raw value, no smoothing window of a later sample reaches back
\* before it, and when the walk comes to it the whole increase since the
\* tracked point is added to 'added', whatever the spacing of the samples.
C23_RefillBypass ==
  (calc.fn = "tankage" /\ calc.step \in {"walking", "returned"}
     /\ Len(calc.points) >= 2 /\ calc.engine = SmoothedEngine) =>
    /\ \A r \in Refills : calc.points[r].value = calc.dataPoints[r].value
    /\ \A j \in DOMAIN calc.points :
         j \notin Refills =>
           calc.points[j].value * Cardinality(WindowOf(j))
             = SumOfValues(calc.dataPoints, WindowOf(j))
    /\ (Walked /\ (calc.i - 1) \in Refills) =>
         calc.walk.totalAdded - calc.before.totalAdded
           = WalkedSample.value - TrackedBefore.value

RECURSIVE CloselySpaced(_, _, _)
\* from sample i on, every sample the walk evaluates (one at least 2 minutes
\* after the tracked point) lies less than 5 minutes after the tracked point
CloselySpaced(points, i, tracked) ==
  IF i > Len(points) THEN TRUE
  ELSE LET elapsed == points[i].timestamp - points[tracked].timestamp IN
       IF elapsed < 2 * 60 * 1000 THEN CloselySpaced(points, i + 1, tracked)
       ELSE elapsed < 5 * 60 * 1000 /\ CloselySpaced(points, i + 1, i)

RECURSIVE Decreases(_, _, _)
\* from sample i on, the sum of the decreases of the evaluated samples since
\* their tracked points
Decreases(points, i, tracked) ==
  IF i > Len(points) THEN 0
  ELSE IF points[i].timestamp - points[tracked].timestamp < 2 * 60 * 1000
  THEN Decreases(points, i + 1, tracked)
  ELSE (IF points[i].value < points[tracked].value
        THEN points[tracked].value - points[i].value ELSE 0)
       + Decreases(points, i + 1, i)

ConfiguredGroups ==
  { options.groups[n] : n \in {m \in DOMAIN options.groups :
                                 "paths" \in DOMAIN options.groups[m]} }

\* the paths of group g that have an entry in the cache of its domain
CachedMembers(g) ==
  { g.paths[n] : n \in DOMAIN g.paths } \cap DOMAIN cache[g.type]

\* the value of field f in the result of member path for range, 0 when the
\* result does not carry it
MemberValue(g, path, range, f) ==
  LET periods == cache[g.type][path].data.periods IN
  IF range \notin DOMAIN periods THEN 0
  ELSE IF g.type = "tankage"
  THEN IF f \in DOMAIN periods[range] THEN periods[range][f] ELSE 0
  ELSE IF "energy" \in DOMAIN periods[range] THEN periods[range].energy[f] ELSE 0

RECURSIVE MemberSum(_, _, _, _)
\* the sum of field f for range over the members in paths
MemberSum(g, paths, range, f) ==
  IF paths = {} THEN 0
  ELSE LET path == CHOOSE q \in paths : TRUE IN
       MemberValue(g, path, range, f) + MemberSum(g, paths \ {path}, range, f)

\* the cached entry of group g agrees with the cache entries of its members
GroupEntryAgrees(g) ==
  /\ g.id \in DOMAIN groupCache
  /\ LET totals == groupCache[g.id].data.periods
         members == CachedMembers(g)
     IN  /\ DOMAIN totals = UNION {DOMAIN cache[g.type][path].data.periods : path \in members}
         /\ members \subseteq hist.written[g.type]
         /\ \A range \in DOMAIN totals :
              IF g.type = "tankage"
              THEN /\ totals[range].consumed = MemberSum(g, members, range, "consumed")
                   /\ totals[range].added = MemberSum(g, members, range, "added")
              ELSE /\ totals[range].energy.consumedWh
                        = MemberSum(g, members, range, "consumedWh")
                   /\ totals[range].energy.generatedWh
                        = MemberSum(g, members, range, "generatedWh")

\* C24: once a pass has completed, every configured group has a cached entry
\* whose periods are the union of the periods in the cache entries of its
\* members, written by that pass, and whose totals are the sums of the
\* members' values; the group cache is written only by a turn that ends a
\* pass, when no item task of the pass is left.  (After plugin.stop the
\* caches may have been cleared.)
C24_GroupAggregation ==
  /\ (running = {} /\ hist.last = "ok") =>
       \/ phase = "stopped" /\ cache = ClearedCaches /\ groupCache = EmptyMap
       \/ \A g \in ConfiguredGroups : GroupEntryAgrees(g)
  /\ (running # {} /\ hist.completed = 0 /\ phase # "stopped") => groupCache = EmptyMap

\* the paths of the items of the configuration
ConfiguredPaths ==
  UNION { { options[e][i].path : i \in DOMAIN options[e] } : e \in Engines }

\* C27: whenever the coordinator is ready, getUsageForPath(p) returns the
\* item that getUsageData().items holds for p, and nothing exactly when items
\* has no entry for p, for every path p.
C27_AccessorsAgree ==
  isReady =>
    \A p \in ConfiguredPaths \cup {"none"} :
      IF p \in DOMAIN getUsageData.items
      THEN getUsageForPath(p) = getUsageData.items[p]
      ELSE getUsageForPath(p) = NullItem

\* C28: once plugin.stop has returned, the caches of both engines and the
\* group cache hold no entry (calculateAll is not called again after stop).
C28_StopLeavesCachesEmpty ==
  phase = "stopped" => cache = ClearedCaches /\ groupCache = EmptyMap

\* C29: while the coordinator is not ready neither accessor returns item
\* data: getUsageData().items is empty and getUsageForPath(p) returns nothing
\* for every path p.
C29_NothingBeforeReady ==
  ~isReady =>
    /\ getUsageData.items = EmptyMap
    /\ \A p \in ConfiguredPaths :
         getUsageForPath(p) = NullItem

\* C26: when every query eventually returns or fails, every pass that has
\* started eventually ends and the in-progress flag is cleared again; and the
\* guard alone drops a call: calculateAll returns without starting a pass only
\* when the flag is set.
C26_PassLiveness ==
  /\ \A p \in 1..MaxPasses : (p \in running) ~> (p \notin running)
  /\ isCalculating ~> ~isCalculating
  /\ [][hist'.dropped # hist.dropped => isCalculating]_vars

\* a pass has ended, a timer tick has started the next one, whose item tasks
\* await their queries, and a later tick was dropped by the guard
C26_Witness ==
  /\ passCount = 2
  /\ 2 \in running
  /\ 1 \notin running
  /\ isCalculating
  /\ tasks # {}
  /\ hist.dropped > 0

====
